---- MODULE Spec2Model ----
(***************************************************************************)
(* Model of ctpl::thread_pool and ctpl::detail::Queue                      *)
(* (src/thirdparty/ctpl/ctpl-std.h).                                       *)
(*                                                                         *)
(* Threads of the model:                                                   *)
(*   - submitters, each calling thread_pool::push one call after another;  *)
(*   - worker threads, each running the lambda of set_thread;              *)
(*   - one controlling thread calling resize / stop / the destructor, one  *)
(*     call at a time (the header asks for resize and stop not to be       *)
(*     interleaved with each other).                                       *)
(* A step of the model is one access to shared state (a Queue method under *)
(* the Queue's mutex, one read or write of an atomic, one critical section *)
(* entry), so that every interleaving the code allows is a behaviour.      *)
(* A waiting thread wakes only when notified, except in SpecSoloSW, which  *)
(* adds the spurious wakeups std::condition_variable::wait permits.        *)
(***************************************************************************)
EXTENDS Integers, Sequences, FiniteSets

\* ---- bounds of the model ------------------------------------------------
MaxThreads == 2      \* std::thread objects ever created by the pool
MaxTasks == 3        \* tasks ever submitted
NumSubmitters == 2   \* threads calling push
SoloTasks == 2       \* tasks submitted in the single-submitter specifications
SoloThreads == 1     \* std::thread objects created in those specifications

Thr == 1..MaxThreads
Tasks == 1..MaxTasks
Submitters == 1..NumSubmitters
Sizes == 0..MaxThreads

NoThread == 0        \* an empty unique_ptr<std::thread> / a free mutex
NoTask == 0          \* no task handle held

VARIABLES
    q,          \* Queue::q, the std::queue of task handles (head first)
    limit_,     \* Queue::limit_
    spc,        \* per submitter: position inside thread_pool::push
    stask,      \* per submitter: the handle _f being pushed
    nextTask,   \* identity of the next handle created by push
    execCount,  \* per task: number of invocations of its callable
    result,     \* per task: the shared state of its packaged_task/future
    threads,    \* thread_pool::threads (index 0 of the code is position 1)
    flags,      \* thread_pool::flags (which flag object each slot points to)
    flagVal,    \* value of the atomic<bool> created for each thread
    wpc,        \* per thread: position inside the set_thread lambda
    widx,       \* per thread: the captured index i
    wtask,      \* per thread: the handle _f it holds (NoTask when !isPop)
    detached,   \* per thread: std::thread::detach was called on it
    nextThr,    \* identity of the next std::thread created
    mutex,      \* owner of thread_pool::mutex
    nWaiting,   \* thread_pool::nWaiting
    isStop,     \* thread_pool::isStop
    isDone,     \* thread_pool::isDone
    cpc,        \* controlling thread: position inside resize / stop
    carg,       \* controlling thread: nThreads of the last resize that ran
                \* (of the constructor's at first, 0 once a stop took effect)
    ci,         \* controlling thread: loop variable i
    cdtor,      \* the running stop(true) is the destructor's
    lastOp,     \* history: the last call made after a stop was commanded
    stopKind,   \* history: which stop last took effect
    stopSnap,   \* history: tasks in the queue when that stop was called
    stopThreads,\* history: threads in the pool when that stop was called
    stopQuiet   \* history: no push was running at or since that call

vars == <<q, limit_, spc, stask, nextTask, execCount, result, threads, flags,
          flagVal, wpc, widx, wtask, detached, nextThr, mutex, nWaiting,
          isStop, isDone, cpc, carg, ci, cdtor, lastOp, stopKind, stopSnap,
          stopThreads, stopQuiet>>

qvars == <<q, limit_>>
svars == <<spc, stask, nextTask>>
tvars == <<execCount, result>>
pvars == <<threads, flags, flagVal, detached, nextThr>>
wvars == <<wpc, widx, wtask>>
gvars == <<mutex, nWaiting, isStop, isDone>>
cvars == <<cpc, carg, ci, cdtor, lastOp>>
hvars == <<stopKind, stopSnap, stopThreads, stopQuiet>>

\* ---- pure helpers -------------------------------------------------------

\* What the callable of task t does when invoked with worker index id (the
\* tasks of the model ignore id): even-numbered tasks raise a failure
\* carrying their number, odd-numbered ones return their number.
Callable(t, id) ==
    IF t % 2 = 0 THEN [kind |-> "failure", of |-> t]
                 ELSE [kind |-> "value", of |-> t]

NoResult == [kind |-> "none", of |-> 0]

\* Queue::push line 97: the test that sends the caller to cv.wait.
QueueFull(qq, lim) == Len(qq) >= lim

\* thread_pool::size()
size == Len(threads)

\* thread_pool::n_idle()
n_idle == nWaiting

\* submitters blocked in Queue::cv, workers blocked in thread_pool::cv
QWaiters == {s \in Submitters : spc[s] = "qwait"}
CvWaiters == {t \in Thr : wpc[t] = "wait"}

SeqSet(s) == {s[i] : i \in 1..Len(s)}
Pad(s, n) == [i \in 1..n |-> IF i <= Len(s) THEN s[i] ELSE NoThread]

\* (variant: pop without the notify_one of line 110)
NotifyNobodyQ == spc' = spc

\* Queue::cv.notify_one(): one blocked submitter, if any, becomes runnable.
NotifyOneQ ==
    IF QWaiters = {} THEN spc' = spc
    ELSE \E s \in QWaiters : spc' = [spc EXCEPT ![s] = "qwoken"]

\* (variant: front() without the q.pop() of line 109)
QueuePopKeepsHead == q' = q /\ NotifyOneQ

\* Queue::pop, lines 104-112, on a non-empty queue.
QueuePop == q' = Tail(q) /\ NotifyOneQ

\* thread_pool::cv.notify_all()
NotifyAllWpc == [t \in Thr |-> IF wpc[t] = "wait" THEN "woken" ELSE wpc[t]]

\* ---- initial states: the pool right after a constructor returned -------
Init ==
    /\ q = <<>>
    /\ \E n \in Sizes \cup {-1} :
          \* n = -1: thread_pool(); otherwise thread_pool(n)
          /\ limit_ = IF n = -1 THEN 0 ELSE 1
          /\ threads = [i \in 1..(IF n = -1 THEN 0 ELSE n) |-> i]
          /\ flags = threads
          /\ wpc = [t \in Thr |-> IF t <= n THEN "pop" ELSE "none"]
          /\ widx = [t \in Thr |-> IF t <= n THEN t - 1 ELSE 0]
          /\ nextThr = IF n = -1 THEN 1 ELSE n + 1
    /\ spc = [s \in Submitters |-> "idle"]
    /\ stask = [s \in Submitters |-> NoTask]
    /\ nextTask = 1
    /\ execCount = [t \in Tasks |-> 0]
    /\ result = [t \in Tasks |-> NoResult]
    /\ flagVal = [t \in Thr |-> FALSE]
    /\ wtask = [t \in Thr |-> NoTask]
    /\ detached = [t \in Thr |-> FALSE]
    /\ mutex = NoThread
    /\ nWaiting = 0
    /\ isStop = FALSE
    /\ isDone = FALSE
    /\ cpc = "idle"
    /\ carg = size
    /\ ci = 0
    /\ cdtor = FALSE
    /\ lastOp = "none"
    /\ stopKind = "none"
    /\ stopSnap = {}
    /\ stopThreads = {}
    /\ stopQuiet = TRUE

\* ---- thread_pool::push (lines 251-261) ----------------------------------

\* lines 253-257 and Queue::push lines 96-100: create the handle, then either
\* append it or block on the Queue's condition variable.
PushCall(s) ==
    /\ spc[s] = "idle"
    /\ cpc # "destroyed"
    /\ nextTask <= MaxTasks
    /\ stask' = [stask EXCEPT ![s] = nextTask]
    /\ nextTask' = nextTask + 1
    /\ IF QueueFull(q, limit_)
          THEN /\ spc' = [spc EXCEPT ![s] = "qwait"]
               /\ q' = q
          ELSE /\ spc' = [spc EXCEPT ![s] = "notify"]
               /\ q' = Append(q, nextTask)
    /\ stopQuiet' = FALSE
    /\ UNCHANGED <<limit_, tvars, pvars, wvars, gvars, cvars,
                   stopKind, stopSnap, stopThreads>>

\* (variant: the woken push inserts at the head of the queue)
QPushWakeFront(s) ==
    /\ spc[s] = "qwoken"
    /\ q' = <<stask[s]>> \o q
    /\ spc' = [spc EXCEPT ![s] = "notify"]
    /\ stopQuiet' = FALSE
    /\ UNCHANGED <<limit_, stask, nextTask, tvars, pvars, wvars, gvars, cvars,
                   stopKind, stopSnap, stopThreads>>

\* Queue::push line 100 after cv.wait returned: append without re-testing.
QPushWake(s) ==
    /\ spc[s] = "qwoken"
    /\ q' = Append(q, stask[s])
    /\ spc' = [spc EXCEPT ![s] = "notify"]
    /\ stopQuiet' = FALSE
    /\ UNCHANGED <<limit_, stask, nextTask, tvars, pvars, wvars, gvars, cvars,
                   stopKind, stopSnap, stopThreads>>

\* (variant: notify_one without holding thread_pool::mutex)
PushNotifyNoLock(s) ==
    /\ spc[s] = "notify"
    /\ IF CvWaiters = {} THEN wpc' = wpc
       ELSE \E t \in CvWaiters : wpc' = [wpc EXCEPT ![t] = "woken"]
    /\ spc' = [spc EXCEPT ![s] = "idle"]
    /\ stask' = [stask EXCEPT ![s] = NoTask]
    /\ stopQuiet' = FALSE
    /\ UNCHANGED <<qvars, nextTask, tvars, pvars, widx, wtask, gvars, cvars,
                   stopKind, stopSnap, stopThreads>>

\* lines 258-260: lock thread_pool::mutex, cv.notify_one(), return the future.
PushNotify(s) ==
    /\ spc[s] = "notify"
    /\ mutex = NoThread
    /\ IF CvWaiters = {} THEN wpc' = wpc
       ELSE \E t \in CvWaiters : wpc' = [wpc EXCEPT ![t] = "woken"]
    /\ spc' = [spc EXCEPT ![s] = "idle"]
    /\ stask' = [stask EXCEPT ![s] = NoTask]
    /\ stopQuiet' = FALSE
    /\ UNCHANGED <<qvars, nextTask, tvars, pvars, widx, wtask, gvars, cvars,
                   stopKind, stopSnap, stopThreads>>

\* ---- the worker thread: the lambda of set_thread (lines 274-298) --------

isPop(t) == wtask[t] # NoTask

\* lines 278 and 286: isPop = this->q.pop(_f), outside thread_pool::mutex.
WPop(t) ==
    /\ wpc[t] = "pop"
    /\ IF q = <<>>
          THEN /\ wpc' = [wpc EXCEPT ![t] = "lock"]
               /\ UNCHANGED <<q, spc, wtask>>
          ELSE /\ QueuePop
               /\ wtask' = [wtask EXCEPT ![t] = Head(q)]
               /\ wpc' = [wpc EXCEPT ![t] = "run"]
    /\ UNCHANGED <<limit_, stask, nextTask, tvars, pvars, widx, gvars, cvars,
                   hvars>>

\* (variant: a failure of the callable leaves the lambda instead of being
\* stored by the packaged_task)
WRunFailureEscapes(t) ==
    /\ wpc[t] = "run"
    /\ execCount' = [execCount EXCEPT ![wtask[t]] = @ + 1]
    /\ result' = [result EXCEPT ![wtask[t]] =
                     IF Callable(wtask[t], widx[t]).kind = "failure" THEN @
                     ELSE IF @ = NoResult THEN Callable(wtask[t], widx[t])
                     ELSE @]
    /\ wtask' = [wtask EXCEPT ![t] = NoTask]
    /\ wpc' = [wpc EXCEPT ![t] =
                  IF Callable(wtask[t], widx[t]).kind = "failure"
                     THEN "done" ELSE "flag"]
    /\ UNCHANGED <<qvars, svars, pvars, widx, gvars, cvars, hvars>>

\* lines 281-282: (*_f)(i) runs the packaged_task, which stores the value or
\* the failure of the callable in the task's shared state; func deletes _f.
WRun(t) ==
    /\ wpc[t] = "run"
    /\ execCount' = [execCount EXCEPT ![wtask[t]] = @ + 1]
    /\ result' = [result EXCEPT ![wtask[t]] =
                     IF @ = NoResult THEN Callable(wtask[t], widx[t]) ELSE @]
    /\ wtask' = [wtask EXCEPT ![t] = NoTask]
    /\ wpc' = [wpc EXCEPT ![t] = "flag"]
    /\ UNCHANGED <<qvars, svars, pvars, widx, gvars, cvars, hvars>>

\* lines 283-285: if (_flag) return; else go on to the pop of line 286.
WFlag(t) ==
    /\ wpc[t] = "flag"
    /\ wpc' = [wpc EXCEPT ![t] = IF flagVal[t] THEN "done" ELSE "pop"]
    /\ UNCHANGED <<qvars, svars, tvars, pvars, widx, wtask, gvars, cvars,
                   hvars>>

\* (variant: line 290 left out)
WLockNoCount(t) ==
    /\ wpc[t] = "lock"
    /\ mutex = NoThread
    /\ mutex' = t
    /\ wpc' = [wpc EXCEPT ![t] = "pred"]
    /\ UNCHANGED <<qvars, svars, tvars, pvars, widx, wtask, nWaiting, isStop,
                   isDone, cvars, hvars>>

\* lines 289-291: lock thread_pool::mutex, ++nWaiting.
WLock(t) ==
    /\ wpc[t] = "lock"
    /\ mutex = NoThread
    /\ mutex' = t
    /\ nWaiting' = nWaiting + 1
    /\ wpc' = [wpc EXCEPT ![t] = "pred"]
    /\ UNCHANGED <<qvars, svars, tvars, pvars, widx, wtask, isStop, isDone,
                   cvars, hvars>>

\* line 292, first operand of the wait predicate: isPop = this->q.pop(_f).
WPred(t) ==
    /\ wpc[t] = "pred"
    /\ mutex = t
    /\ IF q = <<>>
          THEN /\ wpc' = [wpc EXCEPT ![t] = "pred2"]
               /\ UNCHANGED <<q, spc, wtask>>
          ELSE /\ QueuePop
               /\ wtask' = [wtask EXCEPT ![t] = Head(q)]
               /\ wpc' = [wpc EXCEPT ![t] = "dec"]
    /\ UNCHANGED <<limit_, stask, nextTask, tvars, pvars, widx, gvars, cvars,
                   hvars>>

\* (variant: the predicate without this->isDone)
WakeCommandOwnFlag(t) == flagVal[t]

\* line 292, the rest of the predicate: isPop || this->isDone || _flag.
WakeCommand(t) == isDone \/ flagVal[t]

\* line 292 after a failed pop: leave the wait if commanded to finish,
\* otherwise release the mutex and block on thread_pool::cv.
WPred2(t) ==
    /\ wpc[t] = "pred2"
    /\ mutex = t
    /\ IF WakeCommand(t)
          THEN /\ wpc' = [wpc EXCEPT ![t] = "dec"]
               /\ mutex' = mutex
          ELSE /\ wpc' = [wpc EXCEPT ![t] = "wait"]
               /\ mutex' = NoThread
    /\ UNCHANGED <<qvars, svars, tvars, pvars, widx, wtask, nWaiting, isStop,
                   isDone, cvars, hvars>>

\* line 292: a notified waiter re-acquires the mutex to re-test the predicate.
WWoken(t) ==
    /\ wpc[t] = "woken"
    /\ mutex = NoThread
    /\ mutex' = t
    /\ wpc' = [wpc EXCEPT ![t] = "pred"]
    /\ UNCHANGED <<qvars, svars, tvars, pvars, widx, wtask, nWaiting, isStop,
                   isDone, cvars, hvars>>

\* (variant: line 293 left out)
WDecKeepsCount(t) ==
    /\ wpc[t] = "dec"
    /\ mutex = t
    /\ mutex' = NoThread
    /\ wpc' = [wpc EXCEPT ![t] = IF wtask[t] # NoTask THEN "run" ELSE "done"]
    /\ UNCHANGED <<qvars, svars, tvars, pvars, widx, wtask, nWaiting, isStop,
                   isDone, cvars, hvars>>

\* lines 293-297: --nWaiting; return if !isPop, else run the task; the lock
\* goes out of scope either way.
WDec(t) ==
    /\ wpc[t] = "dec"
    /\ mutex = t
    /\ nWaiting' = nWaiting - 1
    /\ mutex' = NoThread
    /\ wpc' = [wpc EXCEPT ![t] = IF isPop(t) THEN "run" ELSE "done"]
    /\ UNCHANGED <<qvars, svars, tvars, pvars, widx, wtask, isStop, isDone,
                   cvars, hvars>>

Worker(t) ==
    \/ WPop(t) \/ WRun(t) \/ WFlag(t) \/ WLock(t) \/ WPred(t) \/ WPred2(t)
    \/ WWoken(t) \/ WDec(t)

\* ---- thread_pool::resize (lines 156-182) --------------------------------

\* (variant: the test of line 157 without isDone)
ResizeAllowedIgnoresDone == ~isStop

\* line 157: resize does something only while neither stop flag is set.
ResizeAllowed == ~isStop /\ ~isDone

\* line 159: oldNThreads <= nThreads selects the growing branch.
GrowBranch(oldNThreads, nThreads) == oldNThreads <= nThreads

\* lines 157-162 (grow: the two vectors get their new length, new slots
\* empty) or lines 157-159 (shrink: enter the loop of line 169).
ResizeCall(n) ==
    /\ cpc = "idle"
    /\ lastOp' = IF isStop \/ isDone THEN "resize" ELSE lastOp
    /\ IF ~ResizeAllowed
          THEN UNCHANGED <<threads, flags, cpc, carg, ci>>
          ELSE IF GrowBranch(size, n)
                  THEN /\ nextThr + (n - size) <= MaxThreads + 1
                       /\ threads' = Pad(threads, n)
                       /\ flags' = Pad(flags, n)
                       /\ carg' = n
                       /\ ci' = IF size < n THEN size ELSE 0
                       /\ cpc' = IF size < n THEN "r_grow" ELSE "idle"
                  ELSE /\ carg' = n
                       /\ ci' = size - 1
                       /\ cpc' = "r_mark"
                       /\ UNCHANGED <<threads, flags>>
    /\ UNCHANGED <<qvars, svars, tvars, flagVal, detached, nextThr, wvars,
                   gvars, cdtor, hvars>>

\* lines 163-166 and set_thread lines 273, 299: one iteration of the loop
\* creates flags[i] and starts the thread of index i.
ResizeGrow ==
    /\ cpc = "r_grow"
    /\ flags' = [flags EXCEPT ![ci + 1] = nextThr]
    /\ flagVal' = [flagVal EXCEPT ![nextThr] = FALSE]
    /\ threads' = [threads EXCEPT ![ci + 1] = nextThr]
    /\ wpc' = [wpc EXCEPT ![nextThr] = "pop"]
    /\ widx' = [widx EXCEPT ![nextThr] = ci]
    /\ nextThr' = nextThr + 1
    /\ ci' = IF ci + 1 < carg THEN ci + 1 ELSE 0
    /\ cpc' = IF ci + 1 < carg THEN "r_grow" ELSE "idle"
    /\ UNCHANGED <<qvars, svars, tvars, wtask, detached, gvars, carg, cdtor,
                   lastOp, hvars>>

\* lines 169-172: one iteration sets the flag of thread i and detaches it.
ResizeMark ==
    /\ cpc = "r_mark"
    /\ flagVal' = [flagVal EXCEPT ![flags[ci + 1]] = TRUE]
    /\ detached' = [detached EXCEPT ![threads[ci + 1]] = TRUE]
    /\ ci' = IF ci - 1 >= carg THEN ci - 1 ELSE 0
    /\ cpc' = IF ci - 1 >= carg THEN "r_mark" ELSE "r_notify"
    /\ UNCHANGED <<qvars, svars, tvars, threads, flags, nextThr, wvars, gvars,
                   carg, cdtor, lastOp, hvars>>

\* (variant: the shrink without the notify_all of line 176)
ResizeNotifyNobody ==
    /\ cpc = "r_notify"
    /\ mutex = NoThread
    /\ cpc' = "r_trim"
    /\ UNCHANGED <<qvars, svars, tvars, pvars, wvars, gvars, carg, ci,
                   cdtor, lastOp, hvars>>

\* lines 173-177: cv.notify_all() under thread_pool::mutex.
ResizeNotify ==
    /\ cpc = "r_notify"
    /\ mutex = NoThread
    /\ wpc' = NotifyAllWpc
    /\ cpc' = "r_trim"
    /\ UNCHANGED <<qvars, svars, tvars, pvars, widx, wtask, gvars, carg, ci,
                   cdtor, lastOp, hvars>>

\* (variant: lines 178-179 left out)
ResizeTrimKeepsAll ==
    /\ cpc = "r_trim"
    /\ cpc' = "idle"
    /\ UNCHANGED <<qvars, svars, tvars, pvars, wvars, gvars, carg, ci, cdtor,
                   lastOp, hvars>>

\* lines 178-179: both vectors are cut to nThreads entries.
ResizeTrim ==
    /\ cpc = "r_trim"
    /\ threads' = SubSeq(threads, 1, carg)
    /\ flags' = SubSeq(flags, 1, carg)
    /\ cpc' = "idle"
    /\ UNCHANGED <<qvars, svars, tvars, flagVal, detached, nextThr, wvars,
                   gvars, carg, ci, cdtor, lastOp, hvars>>

\* ---- thread_pool::stop (lines 205-233) and the destructor ---------------

\* (variant: line 216 testing isDone only)
StopReturnsEarlyOwnFlag(isWait) == IF isWait THEN isDone ELSE isStop

\* lines 207 and 216: the early returns of the two branches.
StopReturnsEarly(isWait) == IF isWait THEN isDone \/ isStop ELSE isStop

\* lines 206-209 / 215-218, called as stop(isWait) or, with dtor, from
\* ~thread_pool (line 143).
StopCall(isWait, dtor) ==
    /\ cpc = "idle"
    /\ dtor => isWait
    /\ lastOp' = IF isStop \/ isDone
                     THEN IF isWait THEN "stopTrue" ELSE "stopFalse"
                     ELSE lastOp
    /\ IF StopReturnsEarly(isWait)
          THEN /\ cpc' = IF dtor THEN "destroyed" ELSE "idle"
               /\ UNCHANGED <<isStop, isDone, carg, ci, cdtor, hvars>>
          ELSE /\ cdtor' = dtor
               /\ carg' = 0
               /\ isStop' = (isStop \/ ~isWait)
               /\ isDone' = (isDone \/ isWait)
               /\ ci' = 0
               /\ cpc' = IF isWait THEN "s_notify"
                         ELSE IF size > 0 THEN "s_flags" ELSE "s_clear1"
               /\ stopKind' = IF isWait THEN "graceful" ELSE "forceful"
               /\ stopSnap' = SeqSet(q)
               /\ stopThreads' = SeqSet(threads)
               /\ stopQuiet' = \A s \in Submitters : spc[s] = "idle"
    /\ UNCHANGED <<qvars, svars, tvars, pvars, wvars, mutex, nWaiting>>

\* (variant: the loop of lines 210-212 without the assignment)
StopFlagsSetsNone ==
    /\ cpc = "s_flags"
    /\ ci' = IF ci + 1 < size THEN ci + 1 ELSE 0
    /\ cpc' = IF ci + 1 < size THEN "s_flags" ELSE "s_clear1"
    /\ UNCHANGED <<qvars, svars, tvars, pvars, wvars, gvars, carg, cdtor,
                   lastOp, hvars>>

\* lines 210-212: one iteration, *this->flags[i] = true.
StopFlags ==
    /\ cpc = "s_flags"
    /\ flagVal' = [flagVal EXCEPT ![flags[ci + 1]] = TRUE]
    /\ ci' = IF ci + 1 < size THEN ci + 1 ELSE 0
    /\ cpc' = IF ci + 1 < size THEN "s_flags" ELSE "s_clear1"
    /\ UNCHANGED <<qvars, svars, tvars, threads, flags, detached, nextThr,
                   wvars, gvars, carg, cdtor, lastOp, hvars>>

\* clear_queue, lines 185-189, one q.pop per step; goes to `next` when the
\* pop finds the queue empty.
ClearQueueStep(here, next) ==
    /\ cpc = here
    /\ IF q = <<>>
          THEN /\ cpc' = next
               /\ UNCHANGED <<q, spc>>
          ELSE /\ QueuePop
               /\ cpc' = here

\* line 213
StopClear ==
    /\ ClearQueueStep("s_clear1", "s_notify")
    /\ UNCHANGED <<limit_, stask, nextTask, tvars, pvars, wvars, gvars, carg,
                   ci, cdtor, lastOp, hvars>>

\* lines 220-223: cv.notify_all() under thread_pool::mutex.
StopNotify ==
    /\ cpc = "s_notify"
    /\ mutex = NoThread
    /\ wpc' = NotifyAllWpc
    /\ ci' = 0
    /\ cpc' = IF size > 0 THEN "s_join" ELSE "s_clear2"
    /\ UNCHANGED <<qvars, svars, tvars, pvars, widx, wtask, gvars, carg,
                   cdtor, lastOp, hvars>>

\* lines 224-227: one iteration; join returns once thread i has returned.
StopJoin ==
    /\ cpc = "s_join"
    /\ detached[threads[ci + 1]] \/ wpc[threads[ci + 1]] = "done"
    /\ ci' = IF ci + 1 < size THEN ci + 1 ELSE 0
    /\ cpc' = IF ci + 1 < size THEN "s_join" ELSE "s_clear2"
    /\ UNCHANGED <<qvars, svars, tvars, pvars, wvars, gvars, carg, cdtor,
                   lastOp, hvars>>

\* line 230
StopClear2 ==
    /\ ClearQueueStep("s_clear2", "s_end")
    /\ UNCHANGED <<limit_, stask, nextTask, tvars, pvars, wvars, gvars, carg,
                   ci, cdtor, lastOp, hvars>>

\* lines 231-232: threads.clear(), flags.clear(); stop returns.
StopEnd ==
    /\ cpc = "s_end"
    /\ threads' = <<>>
    /\ flags' = <<>>
    /\ cpc' = IF cdtor THEN "destroyed" ELSE "idle"
    /\ cdtor' = FALSE
    /\ UNCHANGED <<qvars, svars, tvars, flagVal, detached, nextThr, wvars,
                   gvars, carg, ci, lastOp, hvars>>

\* ---- the specification --------------------------------------------------

Submitter(s) == PushCall(s) \/ QPushWake(s) \/ PushNotify(s)

Controller ==
    \/ \E n \in Sizes : ResizeCall(n)
    \/ ResizeGrow \/ ResizeMark \/ ResizeNotify \/ ResizeTrim
    \/ \E isWait \in BOOLEAN : StopCall(isWait, FALSE)
    \/ StopCall(TRUE, TRUE)
    \/ StopFlags \/ StopClear \/ StopNotify \/ StopJoin \/ StopClear2
    \/ StopEnd

Next ==
    \/ \E s \in Submitters : Submitter(s)
    \/ \E t \in Thr : Worker(t)
    \/ Controller

Spec == Init /\ [][Next]_vars

\* std::condition_variable::wait may return without a notify: line 98
\* (Queue::push, which then goes on to line 100) and line 292 (the worker,
\* which re-tests its predicate).
SpuriousWakeQ(s) ==
    /\ spc[s] = "qwait"
    /\ spc' = [spc EXCEPT ![s] = "qwoken"]
    /\ UNCHANGED <<qvars, stask, nextTask, tvars, pvars, wvars, gvars, cvars,
                   hvars>>
SpuriousWakeCv(t) ==
    /\ wpc[t] = "wait"
    /\ wpc' = [wpc EXCEPT ![t] = "woken"]
    /\ UNCHANGED <<qvars, svars, tvars, pvars, widx, wtask, gvars, cvars,
                   hvars>>
SpuriousWake == SpuriousWakeQ(1) \/ \E t \in Thr : SpuriousWakeCv(t)

\* Scheduling: a thread that can take its next step eventually takes it.
\* Calls of push, resize and stop are the environment's and are not forced.
ControllerStep ==
    \/ ResizeGrow \/ ResizeMark \/ ResizeNotify \/ ResizeTrim
    \/ StopFlags \/ StopClear \/ StopNotify \/ StopJoin \/ StopClear2
    \/ StopEnd
Fairness ==
    /\ \A t \in Thr : WF_vars(Worker(t))
    /\ \A s \in Submitters : WF_vars(QPushWake(s) \/ PushNotify(s))
    /\ WF_vars(ControllerStep)

\* The pool used by one submitting thread: any constructor, any calls of
\* resize, stop and the destructor, every interleaving with the workers.
InitSolo == Init /\ size <= SoloThreads
SoloPush ==
    \/ nextTask <= SoloTasks /\ PushCall(1)
    \/ QPushWake(1) \/ PushNotify(1)
SoloResize(n) ==
    /\ size <= n => nextThr + (n - size) <= SoloThreads + 1
    /\ ResizeCall(n)
SoloController ==
    \/ \E n \in 0..SoloThreads : SoloResize(n)
    \/ ResizeGrow \/ ResizeMark \/ ResizeNotify \/ ResizeTrim
    \/ \E isWait \in BOOLEAN : StopCall(isWait, FALSE)
    \/ StopCall(TRUE, TRUE)
    \/ StopFlags \/ StopClear \/ StopNotify \/ StopJoin \/ StopClear2
    \/ StopEnd
NextSolo ==
    \/ SoloPush
    \/ \E t \in Thr : Worker(t)
    \/ SoloController
SpecSolo == InitSolo /\ [][NextSolo]_vars

\* The same with spurious wakeups.
NextSoloSW == NextSolo \/ SpuriousWake
SpecSoloSW == InitSolo /\ [][NextSoloSW]_vars

\* Graceful shutdown without concurrent submission: the submitter pushes
\* while the pool runs, the controlling thread resizes and calls stop(true)
\* at a moment when no push is running, and nobody pushes afterwards.
DrainPush == ~isDone /\ SoloPush
DrainStop == (\A s \in Submitters : spc[s] = "idle") /\ StopCall(TRUE, FALSE)
DrainController ==
    \/ \E n \in 0..SoloThreads : SoloResize(n)
    \/ ResizeGrow \/ ResizeMark \/ ResizeNotify \/ ResizeTrim
    \/ DrainStop
    \/ StopNotify \/ StopJoin \/ StopClear2 \/ StopEnd
NextDrain ==
    \/ DrainPush
    \/ \E t \in Thr : Worker(t)
    \/ DrainController
SpecDrain == InitSolo /\ [][NextDrain]_vars /\ Fairness

\* The end-to-end scenario: a pool built by thread_pool(N), N >= 1; one
\* thread pushes tasks one after another and then calls stop(true).
InitE2E == Init /\ limit_ = 1 /\ size >= 1
E2EPush == ~isDone /\ cpc = "idle" /\ Submitter(1)
E2EStop == spc[1] = "idle" /\ StopCall(TRUE, FALSE)
NextE2E ==
    \/ E2EPush
    \/ \E t \in Thr : Worker(t)
    \/ E2EStop
    \/ StopNotify \/ StopJoin \/ StopClear2 \/ StopEnd
SpecE2E == InitE2E /\ [][NextE2E]_vars /\ Fairness

\* One submitting thread, any constructor, workers, stop(false), stop(true)
\* and the destructor, with the spurious returns of the wait of line 98
\* (the only way one submitter gets more than limit_ tasks into the queue).
FifoController ==
    \/ \E isWait \in BOOLEAN : StopCall(isWait, FALSE)
    \/ StopCall(TRUE, TRUE)
    \/ StopFlags \/ StopClear \/ StopNotify \/ StopJoin \/ StopClear2
    \/ StopEnd
NextFifo ==
    \/ Submitter(1) \/ SpuriousWakeQ(1)
    \/ \E t \in Thr : Worker(t)
    \/ FifoController
SpecFifo == Init /\ [][NextFifo]_vars

\* A running pool: thread_pool(N), N >= 1, one thread pushing, resize
\* between sizes >= 1 (the worker of index 0 is never told to stop), no call
\* of stop; threads are scheduled fairly.
InitRunning == Init /\ limit_ = 1 /\ size >= 1
RunningResize == \E n \in 1..MaxThreads : ResizeCall(n)
NextRunning ==
    \/ SoloPush
    \/ \E t \in Thr : Worker(t)
    \/ RunningResize
    \/ ResizeGrow \/ ResizeMark \/ ResizeNotify \/ ResizeTrim
SpecRunning == InitRunning /\ [][NextRunning]_vars /\ Fairness

\* Resizing without stopping: any constructor, one thread pushing, resize
\* to any size, no call of stop; threads are scheduled fairly.
NextShrink ==
    \/ SoloPush
    \/ \E t \in Thr : Worker(t)
    \/ \E n \in Sizes : ResizeCall(n)
    \/ ResizeGrow \/ ResizeMark \/ ResizeNotify \/ ResizeTrim
SpecShrink == Init /\ [][NextShrink]_vars /\ Fairness

\* Shutdown without concurrent submission, in either mode: the submitter
\* pushes while the pool runs; the controlling thread resizes and calls
\* stop(false) or stop(true), any number of times, at moments when no push
\* is running; nobody pushes once a stop was called.
QuietPush == ~isStop /\ ~isDone /\ SoloPush
QuietStop ==
    /\ \A s \in Submitters : spc[s] = "idle"
    /\ \E isWait \in BOOLEAN : StopCall(isWait, FALSE)
QuietController ==
    \/ \E n \in 0..SoloThreads : SoloResize(n)
    \/ ResizeGrow \/ ResizeMark \/ ResizeNotify \/ ResizeTrim
    \/ QuietStop
    \/ StopFlags \/ StopClear \/ StopNotify \/ StopJoin \/ StopClear2
    \/ StopEnd
NextQuiet ==
    \/ QuietPush
    \/ \E t \in Thr : Worker(t)
    \/ QuietController
SpecQuiet == InitSolo /\ [][NextQuiet]_vars /\ Fairness

TypeOK ==
    /\ nWaiting \in 0..MaxThreads
    /\ mutex \in Thr \cup {NoThread}

\* ---- properties ---------------------------------------------------------

\* C1: whenever the queue limit is nonzero, the number of queued tasks is at
\* most the limit in every reachable state (a submitter that would exceed
\* it stays blocked).
QueueBounded == limit_ # 0 => Len(q) <= limit_

\* C2: with a queue limit of 0 (the default-constructed pool) push appends
\* its task without ever suspending the caller.
UnboundedNeverBlocks ==
    limit_ = 0 => \A s \in Submitters : spc[s] \notin {"qwait", "qwoken"}

\* C3 as stated: every task that is in the queue when stop(true) is called,
\* with no concurrent push, has been executed exactly once when stop(true)
\* has returned - whatever the worker count at the call.
Terminated == \A t \in Thr : wpc[t] \in {"none", "done"}
GracefulReturned == stopKind = "graceful" /\ stopQuiet /\ cpc = "idle"
GracefulCalled == stopKind = "graceful" /\ stopQuiet /\ stopThreads # {}
Drained ==
    /\ cpc = "idle" /\ q = <<>> /\ Terminated
    /\ \A t \in stopSnap : execCount[t] = 1
ForcefulDiscardsQueued ==
    stopKind = "forceful" => \A t \in stopSnap : execCount[t] = 0

\* C5: thread_pool(N), N >= 1, limit 1, one thread pushing k tasks and then
\* calling stop(true): every push returns, stop(true) returns, and then each
\* pushed task has been executed exactly once and its result channel holds
\* its own callable's outcome.
Pushed == 1..(nextTask - 1)
E2EAllDone ==
    /\ cpc = "idle" /\ spc[1] = "idle" /\ q = <<>> /\ Terminated
    /\ \A t \in Pushed : execCount[t] = 1 /\ result[t] = Callable(t, 0)
EndToEnd ==
    /\ (spc[1] # "idle") ~> (spc[1] = "idle")
    /\ isDone ~> E2EAllDone
    /\ [](isDone /\ cpc = "idle" => E2EAllDone)
EndToEndWitness ==
    /\ isDone /\ E2EAllDone /\ Pushed = Tasks /\ size = 0
    /\ Cardinality(stopThreads) = MaxThreads

\* C6: no task's callable is invoked more than once, no task handle is held
\* by two workers or by a worker and the queue at once, and a result channel
\* is written only by an execution of its own task, with exactly the value
\* or failure that execution produced.
Holders(t) == {w \in Thr : wtask[w] = t}
InQueue(t) == Cardinality({i \in 1..Len(q) : q[i] = t})
AtMostOnce ==
    \A t \in Tasks :
       /\ execCount[t] <= 1
       /\ Cardinality(Holders(t)) + InQueue(t) + execCount[t] <= 1
       /\ result[t] # NoResult =>
              /\ execCount[t] = 1
              /\ result[t] = Callable(t, 0)
              /\ result[t].of = t
       /\ execCount[t] = 1 => result[t] # NoResult
AtMostOnceWitness ==
    /\ execCount[1] = 1 /\ result[1].kind = "value"
    /\ execCount[2] = 1 /\ result[2].kind = "failure"
    /\ \E w1, w2 \in Thr :
          /\ w1 # w2 /\ widx[w1] # widx[w2]
          /\ wtask[w1] = 3 /\ wpc[w2] \in {"lock", "pred2", "wait"}

\* C7 as stated: whenever the queue is empty and no worker is executing a
\* task, n_idle() = size().
Executing == {t \in Thr : wpc[t] = "run"}
IdleEqualsSize == (q = <<>> /\ Executing = {}) => n_idle = size
\* C7 as amended: whenever the queue is empty, every worker thread of the
\* pool is suspended in its wait and no removed worker is still inside the
\* wait section, n_idle() = size().
InWaitSection(t) == wpc[t] \in {"pred", "pred2", "wait", "woken", "dec"}
AllSuspended ==
    /\ \A i \in 1..size : threads[i] # NoThread /\ wpc[threads[i]] = "wait"
    /\ \A t \in Thr \ SeqSet(threads) : ~InWaitSection(t)
IdleEqualsSizeWhenSuspended == (q = <<>> /\ AllSuspended) => n_idle = size
IdleEqualsSizeWhenSuspendedWitness ==
    /\ q = <<>> /\ AllSuspended /\ n_idle = size /\ size >= 1
    /\ execCount[1] = 1 /\ execCount[2] = 1

\* C8 as stated: the forceful flag isStop and the graceful flag isDone are
\* never both set.
StopModesExclusive == ~(isStop /\ isDone)
\* C8 as amended: once isStop is set isDone never changes, so the two flags
\* are both set only when stop(false) is called after stop(true).
DoneNeverSetAfterStop == [][isStop => isDone' = isDone]_vars
DoneNeverSetAfterStopWitness ==
    isStop /\ ~isDone /\ lastOp = "stopTrue" /\ stopKind = "forceful"

\* C9: on a running pool, after resize(N) has returned, size() = N.
ResizePostcondition ==
    (cpc = "idle" /\ ~isStop /\ ~isDone) => size = carg
ResizePostconditionWitness ==
    /\ cpc = "idle" /\ ~isStop /\ ~isDone
    /\ size = carg /\ size = 0
    /\ \E t \in Thr : detached[t] /\ wpc[t] # "done"

\* C10: a resize called after stop(false) or stop(true) was issued leaves
\* the worker collection, the flags, the queue and the idle counter
\* unchanged and starts or signals no thread.
ResizeCallStep == cpc = "idle" /\ lastOp # "resize" /\ lastOp' = "resize"
ResizeAfterStopIsNoop ==
    [][(ResizeCallStep /\ (isStop \/ isDone)) =>
          UNCHANGED <<threads, flags, flagVal, detached, nextThr, isStop,
                      isDone, q, nWaiting, wpc, wtask, mutex, cpc>>]_vars
ResizeAfterStopIsNoopWitness ==
    lastOp = "resize" /\ isDone /\ ~isStop /\ cpc = "idle"

\* C11: once stop(false) or stop(true) has returned, a push that starts
\* afterwards does not add a task to the queue.
Stopped == cpc = "idle" /\ (isStop \/ isDone)
PushStarts == \E s \in Submitters : spc[s] = "idle" /\ spc'[s] # "idle"
StoppedRejectsPush == [][(Stopped /\ PushStarts) => q' = q]_vars

\* C12: when a task's callable raises a failure, the failure is stored in
\* that task's result channel, the worker that ran it does not terminate
\* because of it (a worker returns only on a stop command), and it goes on
\* to its stop-flag test and next pop as after a successful task, so a task
\* queued behind the failing one is still executed.
RunStep(t) == wpc[t] = "run" /\ wpc'[t] # "run"
Commanded(t) == flagVal[t] \/ isDone
FailureContained ==
    /\ [][\A t \in Thr : RunStep(t) =>
             /\ result'[wtask[t]] = Callable(wtask[t], widx[t])
             /\ wpc'[t] = "flag"]_vars
    /\ [](\A t \in Thr : wpc[t] = "done" => Commanded(t))
    /\ (result[2].kind = "failure" /\ InQueue(3) = 1) ~> (execCount[3] = 1)
FailureContainedWitness ==
    /\ size = 1 /\ ~isDone
    /\ result[2] = [kind |-> "failure", of |-> 2]
    /\ execCount[3] = 1 /\ result[3].kind = "value"
    /\ wpc[threads[1]] \notin {"done", "none"}

\* C13: with a nonzero limit, a push that found the queue full stays blocked,
\* its task not appended, until a pop removes a task: the step that ends its
\* wait is a step of Queue::pop that removed the head of the queue.
WaitEnds(s) == spc[s] = "qwait" /\ spc'[s] # "qwait"
BackpressureBlocks ==
    /\ [](\A s \in Submitters : spc[s] = "qwait" => InQueue(stask[s]) = 0)
    /\ [][\A s \in Submitters : (limit_ # 0 /\ WaitEnds(s)) =>
             (q # <<>> /\ q' = Tail(q))]_vars

\* C14: the tasks one submitter pushes one after another leave the queue in
\* submission order: the queue holds them in increasing order of submission,
\* and no task is claimed by a worker while a task submitted earlier is
\* still in the queue or still being appended.
Claimed(t) == Holders(t) # {} \/ execCount[t] > 0
BeingAppended(t) == stask[1] = t /\ spc[1] \in {"qwait", "qwoken"}
FifoDispatch ==
    /\ \A i, j \in 1..Len(q) : i < j => q[i] < q[j]
    /\ \A t, u \in Tasks :
          (t < u /\ (InQueue(t) > 0 \/ BeingAppended(t))) => ~Claimed(u)
FifoDispatchWitness ==
    /\ q = <<2, 3>>
    /\ \E w1, w2 \in Thr : w1 # w2 /\ wtask[w1] = 1 /\ wpc[w2] = "pop"

\* C15: in a running pool with a worker that is never told to stop, every
\* task that a push has appended to the queue is eventually executed,
\* wherever the append falls between a worker's failed pop and its wait.
NoLostWakeup == \A t \in 1..SoloTasks : (InQueue(t) > 0) ~> (execCount[t] = 1)
NoLostWakeupWitness ==
    \E w \in Thr, s \in Submitters :
       /\ wpc[w] = "pred2" /\ ~flagVal[w]
       /\ spc[s] = "notify" /\ q = <<stask[s]>>
       /\ \A v \in Thr \ {w} : wpc[v] \in {"none", "wait", "done"}

\* C16: every worker removed by a shrinking resize (its flag set at line
\* 170) eventually returns from its lambda, wherever it was when the flag
\* was set; the workers the resize keeps have their flags clear and, no stop
\* being called, never return.
ShrinkRetires ==
    /\ (\E t \in Thr : flagVal[t] /\ wpc[t] # "done")
          ~> (\A t \in Thr : flagVal[t] => wpc[t] = "done")
    /\ [](cpc = "idle" => \A i \in 1..size : ~flagVal[flags[i]])
    /\ [](\A t \in Thr : wpc[t] = "done" => flagVal[t])
ShrinkRetiresWitness ==
    /\ cpc = "idle" /\ size = 1 /\ wpc[threads[1]] = "wait"
    /\ \E t \in Thr : detached[t] /\ wpc[t] = "done"
    /\ \A t \in 1..SoloTasks : execCount[t] = 1

\* C17: with no push running at or after the call, stop(false) eventually
\* returns; once it has returned every thread that was in the pool at the
\* call has terminated, the queue is empty and size() = 0; and a stop(false)
\* or stop(true) called after that changes nothing.
ForcefulDone ==
    /\ cpc = "idle" /\ q = <<>> /\ size = 0
    /\ \A t \in stopThreads : wpc[t] = "done"
StopAgainStep ==
    /\ cpc = "idle" /\ isStop
    /\ lastOp' # lastOp /\ lastOp' \in {"stopTrue", "stopFalse"}
ForcefulStopCompletes ==
    /\ isStop ~> ForcefulDone
    /\ [](isStop /\ cpc = "idle" => ForcefulDone)
    /\ [][StopAgainStep =>
            UNCHANGED <<qvars, svars, tvars, pvars, wvars, gvars, cpc, carg,
                        ci, cdtor, hvars>>]_vars
ForcefulStopCompletesWitness ==
    /\ isStop /\ ~isDone /\ ForcefulDone /\ lastOp = "stopTrue"
    /\ stopKind = "forceful" /\ stopThreads # {}
    /\ execCount[1] = 1
    /\ stopSnap = {SoloTasks} /\ execCount[SoloTasks] = 0

\* C18: no two worker threads that are alive at the same time carry the same
\* index, and a worker that is executing a task has an index in [0, size()).
Alive(t) == wpc[t] \notin {"none", "done"}
UniqueIndices ==
    /\ \A t, u \in Thr : (t # u /\ Alive(t) /\ Alive(u)) => widx[t] # widx[u]
    /\ \A t \in Thr : wpc[t] = "run" => widx[t] < size

\* C19: once stop(true) or stop(false) has returned, or the destructor has
\* finished, no worker thread the pool ever started is still running.
NoWorkerOutlivesStop ==
    (Stopped \/ cpc = "destroyed") => \A t \in Thr : ~Alive(t)

\* C20 as stated: nWaiting equals the number of worker threads suspended in
\* the wait on thread_pool::cv (notified ones that have not yet re-acquired
\* the mutex included), it is at most the number of live worker threads, and
\* a worker executing a task is not counted.
Suspended == {t \in Thr : wpc[t] \in {"wait", "woken"}}
LiveNotExecuting == {t \in Thr : Alive(t) /\ wpc[t] # "run"}
IdleCountsSuspended ==
    /\ nWaiting = Cardinality(Suspended)
    /\ nWaiting <= Cardinality(LiveNotExecuting)
\* C20 as amended: nWaiting equals the number of worker threads between
\* their ++nWaiting and their --nWaiting (suspended in the wait, evaluating
\* its predicate, or about to decrement), so it is at least the number of
\* suspended workers and at most the number of live workers that are not
\* executing a task.
WaitSection == {t \in Thr : InWaitSection(t)}
IdleCountsWaitSection ==
    /\ nWaiting = Cardinality(WaitSection)
    /\ Cardinality(Suspended) <= nWaiting
    /\ nWaiting <= Cardinality(LiveNotExecuting)
IdleCountsWaitSectionWitness ==
    \E t \in Thr :
       /\ wpc[t] = "dec" /\ wtask[t] = SoloTasks
       /\ nWaiting = 1 /\ Suspended = {}
       /\ execCount[1] = 1

====
